---- MODULE Spec2Model ----
(***************************************************************************)
(* pyLapse: the background task wrapper (web/tasks.py), the parallel       *)
(* executor (img_seq/utils.py) and the cron image selector                 *)
(* (img_seq/lapsetime.py), as state machines.                              *)
(*                                                                         *)
(* SpecTask: one task created by TaskManager.create_task whose function    *)
(* is one ParallelExecutor run (thread or process strategy) that reports   *)
(* through the task's progress closure.                                    *)
(* SpecCron: cron_image_filter applied to an image index, one day of the   *)
(* index per step.                                                         *)
(* SpecNearest: one call of find_nearest.                                  *)
(* SpecSlice: dayslice applied to an image index, one day per step.        *)
(* SpecIndex: builds and queries of one ImageSet (img_seq/image.py).       *)
(* SpecProgress: one task whose job calls the progress closure itself,     *)
(* followed by a client through the progress stream (web/routes/api.py).   *)
(* SpecFire: one call of get_fire_times.                                   *)
(* SpecClear: one call of clear_target, one deletion pass per step.        *)
(***************************************************************************)
EXTENDS Integers, Sequences, FiniteSets, Bags, TLC

(***************************************************************************)
(* Bounds of the model.                                                    *)
(***************************************************************************)
\* The item list of a thread-strategy run has 0..MaxItems items.
MaxItems == 3
\* The item list of a process-strategy run with one worker has 0..MaxBatchItems
\* items (more than ChunksPerWorker, so that chunks of several items occur).
MaxBatchItems == 5
\* ParallelExecutor.workers ranges over 1..MaxWorkers.
MaxWorkers == 2
\* The transform raises on at most MaxRaisers items of the list.
MaxRaisers == 1
\* An image index given to cron_image_filter holds at most MaxFiles files of
\* FilePool (the full-day index of FullDayFiles apart); one given to dayslice
\* at most MaxFiles files of SlicePool.
MaxFiles == 3
\* find_nearest is called on lists of at most MaxLen integers of
\* -1..MaxValue, with a target of -2..MaxValue + 1 and a tolerance of
\* 0..MaxTolerance.
MaxLen == 3
MaxValue == 3
MaxTolerance == 2

\* Days get_fire_times is called for: 0..MaxDay.
MaxDay == 2

\* clear_target is called with retries in 0..MaxRetries.
MaxRetries == 2

(***************************************************************************)
(* Program constants.                                                      *)
(***************************************************************************)
\* run_threaded: pool size = workers * 5.
ThreadsPerWorker == 5
\* _run: chunk_size = max(1, ceil(total / (max_workers * 4))).
ChunksPerWorker == 4
\* find_nearest_dt: fuzzy * 60.
SecondsPerMinute == 60
\* cron_image_filter: fuzzy: int = 5.
DefaultFuzzy == 5

VARIABLES
    cfg,            \* the run's inputs: strategy, mode, workers, n, raisers, kind
    task,           \* the Task dataclass instance
    cancel_requested, \* the task's cancellation request flag
    tpc,            \* position of the task's worker thread in _run
    lastCancel,     \* the last cancel_task call: id, status seen, return value
    cancelSeen,     \* the progress closure has been invoked after an accepted request
    run,            \* position of ParallelExecutor._run
    runExc,         \* the exception propagating out of ParallelExecutor._run
    fut,            \* the futures: state, offset in chunk, partial results, exception
    calls,          \* calls[i]: number of transform calls made for item i
    results,        \* _run's results list
    collected,      \* futures whose result the collector has consumed
    completed,      \* _run's completed counter (thread strategy)
    counter,        \* shared progress counter (process strategy)
    cancel_flag,    \* shared cancel flag (process strategy)
    last_reported,  \* _collect_with_counter's last_reported
    cron,           \* state of the cron_image_filter run
    nearest,        \* state of a find_nearest call
    slice,          \* state of the dayslice run
    iset,           \* the ImageSet instance and the call made on it
    stream,         \* the progress stream of the task: position and last event
    clear           \* state of the clear_target call and of its directory

taskVars == <<task, cancel_requested, tpc, lastCancel, cancelSeen>>
execVars == <<run, runExc, fut, calls, results, collected, completed,
              counter, cancel_flag, last_reported>>
\* What no step of a task's run changes: the selectors, the progress stream
\* and clear_target.
selVars == <<cron, nearest, slice, iset, stream, clear>>
vars == <<cfg, taskVars, execVars, selVars>>

(***************************************************************************)
(* Values.                                                                 *)
(***************************************************************************)
Max(a, b) == IF a >= b THEN a ELSE b

Min(a, b) == IF a <= b THEN a ELSE b

\* -(-a // b) for b > 0.
CeilDiv(a, b) == -((-a) \div b)

\* abs().
Abs(x) == IF x < 0 THEN -x ELSE x

\* The items of a run: a list with a repeated value, so that results are a
\* multiset.
ItemAt(i) == IF i % 2 = 1 THEN "a" ELSE "b"

\* The pure transform: func(item, index), the most general function of its
\* two arguments.
Transform(item, idx) == <<item, idx>>

\* Exception types a transform may raise: one whose constructor takes a single
\* message, one whose constructor needs several arguments, and one that derives
\* from BaseException but not from Exception.
ExcKinds == {"ValueError", "UnicodeDecodeError", "SystemExit"}

IsException(type) == type # "SystemExit"

SingleArgCtor(type) == type # "UnicodeDecodeError"

NoExc == [type |-> "None", msg |-> {}, chain |-> {}, origin |-> "none", otype |-> "None"]

\* The exception raised by the transform itself, with its message.
OrigExc(kind) ==
    [type |-> kind, msg |-> {"boom"}, chain |-> {}, origin |-> "transform", otype |-> kind]

\* The cancellation signal raised by the progress closure.
TaskCancelled ==
    [type |-> "TaskCancelled", msg |-> {"cancelled"}, chain |-> {},
     origin |-> "callback", otype |-> "TaskCancelled"]

\* traceback.format_exc(): a text, as the set of the parts it contains: the
\* exception's type, its message, and the chained context.
FormatExc(e) == {"Traceback", e.type} \cup e.msg \cup e.chain

(***************************************************************************)
(* ParallelExecutor (img_seq/utils.py).                                    *)
(***************************************************************************)
\* batched = issubclass(executor_cls, ProcessPoolExecutor)
Batched == cfg.strategy = "process"

\* run_threaded passes workers * 5, run_multiprocess passes workers.
PoolSize(strategy, workers) ==
    IF strategy = "thread" THEN workers * ThreadsPerWorker ELSE workers

\* A mutant of ChunkSize: the quotient is rounded down.
ChunkSizeFloor(total, max_workers) ==
    Max(1, total \div (max_workers * ChunksPerWorker))

\* chunk_size = max(1, -(-total // (max_workers * 4)))
ChunkSize(total, max_workers) ==
    Max(1, CeilDiv(total, max_workers * ChunksPerWorker))

\* The chunk size of this run; a thread-strategy future holds one item.
RunChunkSize ==
    IF Batched THEN ChunkSize(cfg.n, PoolSize(cfg.strategy, cfg.workers)) ELSE 1

\* One future per item, or one per chunk: range(0, total, chunk_size).
NumFutures == CeilDiv(cfg.n, RunChunkSize)

Futures == 1..NumFutures

\* The start index i of future f's chunk, items[i:i + chunk_size].
ChunkStart(f) == (f - 1) * RunChunkSize

ChunkLen(f) == Min(RunChunkSize, cfg.n - ChunkStart(f))

\* A mutant of ItemIndex: every item of a chunk gets the chunk's start index.
ItemIndexChunkStart(f, k) == ChunkStart(f)

\* The index passed to the transform for the item at offset k of future f's
\* chunk: idx of enumerate(items), or start_idx + i in _batch_run.
ItemIndex(f, k) == ChunkStart(f) + k

\* The item at (0-based) index idx of the list.
ItemOf(idx) == ItemAt(idx + 1)

\* _StackTracedMixin._wrapper: an Exception raised by fn is replaced by
\* type(exc)(traceback.format_exc()); building that fails with a TypeError,
\* chained to the original, when the type's constructor does not take a
\* single message; a BaseException that is no Exception is not caught.
Wrapper(e) ==
    IF ~IsException(e.type) THEN e
    ELSE IF SingleArgCtor(e.type) THEN [e EXCEPT !.msg = FormatExc(e)]
    ELSE [type |-> "TypeError", msg |-> {"ctor"}, chain |-> FormatExc(e),
          origin |-> "transform", otype |-> e.otype]

\* A worker process hands its exception to the parent with the worker's
\* formatted traceback attached as its cause.
CrossProcess(e) == [e EXCEPT !.chain = FormatExc(e)]

\* What the future of a raising transform call holds.
FutureExc(kind) ==
    IF Batched THEN CrossProcess(Wrapper(OrigExc(kind))) ELSE Wrapper(OrigExc(kind))

\* Whether the transform raises on the item at index idx.
Raises(idx) == (idx + 1) \in cfg.raisers

NewFuture == [st |-> "pending", pos |-> 0, phase |-> "check", part |-> <<>>, exc |-> NoExc]

Running == {f \in Futures : fut[f].st = "running"}

Finished(f) == fut[f].st = "finished"

\* The pool takes work items first in, first out, while a worker is free.
CanStart(f) ==
    /\ fut[f].st = "pending"
    /\ \A g \in Futures : g < f => fut[g].st # "pending"
    /\ Cardinality(Running) < PoolSize(cfg.strategy, cfg.workers)

\* _run, lines 284-297: the pool is created and every future submitted.
Submit ==
    /\ tpc = "call"
    /\ run = "idle"
    /\ run' = "collecting"
    /\ fut' = [f \in Futures |-> NewFuture]
    /\ UNCHANGED <<cfg, taskVars, selVars, runExc, calls, results, collected,
                   completed, counter, cancel_flag, last_reported>>

\* A thread-pool worker takes future f and calls func(item, idx).
StartItem(f) ==
    /\ ~Batched
    /\ CanStart(f)
    /\ fut' = [fut EXCEPT ![f].st = "running", ![f].phase = "call"]
    /\ calls' = [calls EXCEPT ![ItemIndex(f, 0) + 1] = @ + 1]
    /\ UNCHANGED <<cfg, taskVars, selVars, run, runExc, results, collected,
                   completed, counter, cancel_flag, last_reported>>

\* The transform call of a thread-pool future returns or raises.
FinishItem(f) ==
    /\ ~Batched
    /\ fut[f].st = "running"
    /\ LET idx == ItemIndex(f, 0) IN
       fut' = [fut EXCEPT ![f] =
                IF Raises(idx)
                THEN [@ EXCEPT !.st = "finished", !.exc = FutureExc(cfg.kind)]
                ELSE [@ EXCEPT !.st = "finished", !.pos = 1,
                               !.part = <<Transform(ItemOf(idx), idx)>>]]
    /\ UNCHANGED <<cfg, taskVars, selVars, run, runExc, calls, results, collected,
                   completed, counter, cancel_flag, last_reported>>

\* A worker process takes chunk f: _batch_run(func, chunk, start_idx) begins.
StartChunk(f) ==
    /\ Batched
    /\ CanStart(f)
    /\ fut' = [fut EXCEPT ![f].st = "running", ![f].phase = "check"]
    /\ UNCHANGED <<cfg, taskVars, selVars, run, runExc, calls, results, collected,
                   completed, counter, cancel_flag, last_reported>>

\* A mutant of Stops: the worker does not look at the flag.
StopsNever(flag) == FALSE

\* _batch_run, lines 160-161: the flag is set, the worker leaves the loop.
Stops(flag) == flag

\* _batch_run, lines 159-162: at the head of each iteration the worker reads
\* the cancel flag; when set it leaves the loop and returns what it has, else
\* it calls func(item, start_idx + i).
BatchCheck(f) ==
    /\ Batched
    /\ fut[f].st = "running"
    /\ fut[f].phase = "check"
    /\ IF Stops(cancel_flag)
       THEN /\ fut' = [fut EXCEPT ![f].st = "finished"]
            /\ calls' = calls
       ELSE /\ fut' = [fut EXCEPT ![f].phase = "call"]
            /\ calls' = [calls EXCEPT ![ItemIndex(f, fut[f].pos) + 1] = @ + 1]
    /\ UNCHANGED <<cfg, taskVars, selVars, run, runExc, results, collected,
                   completed, counter, cancel_flag, last_reported>>

\* A mutant of Incremented: the worker writes back a value it read before
\* the other workers' increments (an increment made without the lock).
IncrementedStale(c) == IF c > 1 THEN c ELSE c + 1

\* _batch_run, lines 163-165: _shared_progress.value += 1 under get_lock().
Incremented(c) == c + 1

\* _batch_run, lines 162-166: the call returns, its result is appended and the
\* shared counter incremented under its lock; after the last item of the chunk
\* the results are returned. A raising call ends the future with the wrapper's
\* exception.
BatchCall(f) ==
    /\ Batched
    /\ fut[f].st = "running"
    /\ fut[f].phase = "call"
    /\ LET idx == ItemIndex(f, fut[f].pos) IN
       IF Raises(idx)
       THEN /\ fut' = [fut EXCEPT ![f].st = "finished", ![f].exc = FutureExc(cfg.kind)]
            /\ counter' = counter
       ELSE /\ fut' = [fut EXCEPT ![f] =
                        [@ EXCEPT !.pos = @ + 1, !.phase = "check",
                                  !.part = Append(@, Transform(ItemOf(idx), idx)),
                                  !.st = IF fut[f].pos + 1 = ChunkLen(f)
                                         THEN "finished" ELSE "running"]]
            /\ counter' = Incremented(counter)
    /\ UNCHANGED <<cfg, taskVars, selVars, run, runExc, calls, results, collected,
                   completed, cancel_flag, last_reported>>

(***************************************************************************)
(* Task and TaskManager (web/tasks.py).                                    *)
(***************************************************************************)
TaskId == "t1"

\* Ids passed to cancel_task: the task's, and one the manager does not know.
TaskIds == {TaskId, "nope"}

Terminal == {"completed", "failed", "cancelled"}

None == [some |-> FALSE, val |-> <<>>, text |-> {}]

\* Task(id=task_id, name=name): the dataclass defaults.
NewTask ==
    [id |-> TaskId, status |-> "pending", progress |-> [num |-> 0, den |-> 1],
     current |-> 0, total |-> 0, message |-> "", error |-> None, result |-> None,
     started_at |-> FALSE, finished_at |-> FALSE]

\* A mutant of Percent: the fraction itself, not multiplied by 100.
PercentAsFraction(c, total) ==
    IF total # 0 THEN [num |-> c, den |-> total]
    ELSE [num |-> 0, den |-> 1]

\* (completed / total * 100) if total else 0, as a fraction.
Percent(c, total) ==
    IF total # 0 THEN [num |-> c * 100, den |-> total]
    ELSE [num |-> 0, den |-> 1]

\* create_task._progress, lines 74-78.
Progress(t, c, total, message) ==
    [t EXCEPT !.current = c, !.total = total, !.message = message,
              !.progress = Percent(c, total)]

\* Once a cancellation request has been accepted, the closure raises the
\* cancellation signal the next time it is invoked.
ProgressRaises == cancel_requested

\* _run's handler for the cancellation signal.
CatchesCancelled(e) == e.type = "TaskCancelled"

\* _run, line 87: except Exception.
CatchesException(e) == IsException(e.type)

\* A mutant of FailedStatus: a status outside the documented ones.
FailedStatusTypo == "error"

\* _run, line 88.
FailedStatus == "failed"

\* The progress callback of the run, invoked as callback(c, total, ""); the
\* run goes on to next unless the callback raises. Only a run given the
\* task's closure reports to the task.
Callback(c, next) ==
    IF cfg.mode = "callback" /\ ProgressRaises
    THEN /\ run' = "aborting"
         /\ runExc' = TaskCancelled
         /\ cancelSeen' = TRUE
         /\ task' = task
    ELSE /\ run' = next
         /\ runExc' = runExc
         /\ cancelSeen' = cancelSeen
         /\ task' = IF cfg.mode = "callback" THEN Progress(task, c, cfg.n, "") ELSE task

\* _run, line 81.
T_Start ==
    /\ tpc = "created"
    /\ task' = [task EXCEPT !.status = "running"]
    /\ tpc' = "started"
    /\ UNCHANGED <<cfg, selVars, execVars, cancel_requested, lastCancel, cancelSeen>>

\* _run, line 82; the function is called next.
T_StartedAt ==
    /\ tpc = "started"
    /\ task' = [task EXCEPT !.started_at = TRUE]
    /\ tpc' = "call"
    /\ UNCHANGED <<cfg, selVars, execVars, cancel_requested, lastCancel, cancelSeen>>

\* _run, line 84: the function returned, its value is stored.
T_Result ==
    /\ tpc = "call"
    /\ run = "returned"
    /\ task' = [task EXCEPT !.result = [some |-> TRUE, val |-> results, text |-> {}]]
    /\ tpc' = "set_completed"
    /\ UNCHANGED <<cfg, selVars, execVars, cancel_requested, lastCancel, cancelSeen>>

\* _run, line 85.
T_Completed ==
    /\ tpc = "set_completed"
    /\ task' = [task EXCEPT !.status = "completed"]
    /\ tpc' = "set_progress"
    /\ UNCHANGED <<cfg, selVars, execVars, cancel_requested, lastCancel, cancelSeen>>

\* _run, line 86.
T_Progress100 ==
    /\ tpc = "set_progress"
    /\ task' = [task EXCEPT !.progress = [num |-> 100, den |-> 1]]
    /\ tpc' = "finally"
    /\ UNCHANGED <<cfg, selVars, execVars, cancel_requested, lastCancel, cancelSeen>>

\* _run, lines 87-88: the function raised. The cancellation signal ends the
\* task cancelled; an Exception ends it failed; anything else is not caught,
\* and only the finally clause runs before the thread dies of it.
T_Except ==
    /\ tpc = "call"
    /\ run = "raised"
    /\ IF CatchesCancelled(runExc)
       THEN /\ task' = [task EXCEPT !.status = "cancelled"]
            /\ tpc' = "finally"
       ELSE IF CatchesException(runExc)
       THEN /\ task' = [task EXCEPT !.status = FailedStatus]
            /\ tpc' = "set_error"
       ELSE /\ task' = task
            /\ tpc' = "finally_uncaught"
    /\ UNCHANGED <<cfg, selVars, execVars, cancel_requested, lastCancel, cancelSeen>>

\* _run, line 89: task.error = traceback.format_exc().
T_Error ==
    /\ tpc = "set_error"
    /\ task' = [task EXCEPT !.error = [some |-> TRUE, val |-> <<>>, text |-> FormatExc(runExc)]]
    /\ tpc' = "finally"
    /\ UNCHANGED <<cfg, selVars, execVars, cancel_requested, lastCancel, cancelSeen>>

\* _run, lines 91-92: finished_at is stamped, then the thread ends: normally,
\* or by the exception no handler caught.
T_Finally ==
    /\ tpc \in {"finally", "finally_uncaught"}
    /\ task' = [task EXCEPT !.finished_at = TRUE]
    /\ tpc' = IF tpc = "finally" THEN "done" ELSE "died"
    /\ UNCHANGED <<cfg, selVars, execVars, cancel_requested, lastCancel, cancelSeen>>

\* TaskManager.cancel_task(task_id): False for an unknown id or a task in a
\* terminal status; True, with the request recorded, for a running task. The
\* request for a task still pending is accepted or refused.
CancelTask(id) ==
    /\ \E ret \in BOOLEAN :
        /\ id # TaskId => ret = FALSE
        /\ id = TaskId /\ task.status \in Terminal => ret = FALSE
        /\ id = TaskId /\ task.status = "running" => ret = TRUE
        /\ cancel_requested' = (cancel_requested \/ ret)
        /\ lastCancel' = [id |-> id,
                          saw |-> IF id = TaskId THEN task.status ELSE "unknown",
                          ret |-> ret]
    /\ UNCHANGED <<cfg, selVars, execVars, task, tpc, cancelSeen>>

(***************************************************************************)
(* ParallelExecutor._run: collecting the futures.                          *)
(***************************************************************************)
\* _run collects through _collect_with_counter (polling the shared counter)
\* in a process-strategy run that is not in debug mode, and through
\* as_completed otherwise.
Polling == Batched /\ cfg.mode # "debug"

\* All orders in which the elements of a set can be iterated.
RECURSIVE Orders(_)
Orders(S) ==
    IF S = {} THEN {<<>>}
    ELSE UNION {{<<x>> \o o : o \in Orders(S \ {x})} : x \in S}

\* The parts of the futures of seq, in order, as one list.
RECURSIVE Extend(_, _)
Extend(acc, seq) ==
    IF seq = <<>> THEN acc ELSE Extend(acc \o fut[Head(seq)].part, Tail(seq))

\* A mutant of NextCompleted: the count is not advanced.
SameCompleted(c) == c

\* _run, line 309: completed += 1.
NextCompleted(c) == c + 1

\* _run, lines 307-310, 312-320, 346-348: as_completed yields a finished
\* future; future.result() raises its exception or its result is appended
\* (the results of a chunk are appended one by one); with a progress callback
\* completed is incremented and the callback invoked.
CollectOne(f) ==
    /\ run = "collecting"
    /\ ~Polling
    /\ Finished(f)
    /\ f \notin collected
    /\ IF fut[f].exc # NoExc
       THEN /\ run' = "aborting"
            /\ runExc' = fut[f].exc
            /\ UNCHANGED <<task, cancelSeen, results, collected, completed>>
       ELSE /\ results' = results \o fut[f].part
            /\ collected' = collected \cup {f}
            /\ IF cfg.mode = "callback"
               THEN /\ completed' = NextCompleted(completed)
                    /\ Callback(NextCompleted(completed), "collecting")
               ELSE /\ completed' = completed
                    /\ UNCHANGED <<run, runExc, task, cancelSeen>>
    /\ UNCHANGED <<cfg, selVars, cancel_requested, tpc, lastCancel, fut, calls,
                   counter, cancel_flag, last_reported>>

\* A mutant of Differs: the counter is never found to have moved.
DiffersNever(current, last) == FALSE

\* _collect_with_counter, lines 393 and 399: current != last_reported.
Differs(current, last) == current # last

\* _collect_with_counter, lines 383-395: one round of the loop. wait() gives
\* the futures finished so far (none on a timeout); their results are taken
\* in the set's iteration order, the first exception met being raised; then
\* the counter is read and reported when it differs from last_reported.
Poll ==
    /\ run = "collecting"
    /\ Polling
    /\ Futures \ collected # {}
    /\ LET done == {f \in Futures \ collected : Finished(f)} IN
       IF \E f \in done : fut[f].exc # NoExc
       THEN /\ \E f \in done :
                 /\ fut[f].exc # NoExc
                 /\ runExc' = fut[f].exc
            /\ run' = "aborting"
            /\ UNCHANGED <<task, cancelSeen, results, collected, last_reported>>
       ELSE /\ \E o \in Orders(done) : results' = Extend(results, o)
            /\ collected' = collected \cup done
            /\ IF Differs(counter, last_reported)
               THEN /\ Callback(counter, "collecting")
                    /\ last_reported' = counter
               ELSE UNCHANGED <<run, runExc, task, cancelSeen, last_reported>>
    /\ UNCHANGED <<cfg, selVars, cancel_requested, tpc, lastCancel, fut, calls,
                   completed, counter, cancel_flag>>

\* _collect_with_counter, lines 397-400, then _run, lines 360-363: no future
\* is pending; the final counter value is reported if it was not yet, the pool
\* is shut down and the results are returned.
FinalPoll ==
    /\ run = "collecting"
    /\ Polling
    /\ Futures \ collected = {}
    /\ IF Differs(counter, last_reported)
       THEN /\ Callback(counter, "returned")
            /\ last_reported' = counter
       ELSE /\ run' = "returned"
            /\ UNCHANGED <<runExc, task, cancelSeen, last_reported>>
    /\ UNCHANGED <<cfg, selVars, cancel_requested, tpc, lastCancel, fut, calls,
                   results, collected, completed, counter, cancel_flag>>

\* _run, lines 360-363: as_completed is exhausted; executor.shutdown(wait=True)
\* and the results are returned.
Return ==
    /\ run = "collecting"
    /\ ~Polling
    /\ collected = Futures
    /\ run' = "returned"
    /\ UNCHANGED <<cfg, selVars, taskVars, runExc, fut, calls, results, collected,
                   completed, counter, cancel_flag, last_reported>>

\* A mutant of AbortOutcome: the handler ends without raising, and _run goes
\* on to return the results.
AbortOutcomeReturn == "returned"

\* _run, line 359: the handler ends by raising.
AbortOutcome == "raised"

\* A mutant of Reraise: the handler raises an error of its own.
ReraiseWrapped(e) ==
    [type |-> "RuntimeError", msg |-> {"run aborted"}, chain |-> FormatExc(e),
     origin |-> e.origin, otype |-> e.otype]

\* _run, line 359: the bare raise re-raises the exception being handled.
Reraise(e) == e

\* A mutant of Cancel: the futures are left as they are.
CancelNothing(fu) == fu

\* _run, lines 356-358: Future.cancel() cancels a future that has not
\* started and leaves any other alone.
Cancel(fu) == IF fu.st = "pending" THEN [fu EXCEPT !.st = "cancelled"] ELSE fu

\* _run, lines 350-359: the handler of whatever was raised while collecting.
\* The shared cancel flag is set (process strategy), every future not yet
\* started is cancelled, the pool is shut down without waiting, and the
\* exception is raised again.
Abort ==
    /\ run = "aborting"
    /\ cancel_flag' = (cancel_flag \/ Batched)
    /\ fut' = [f \in Futures |-> Cancel(fut[f])]
    /\ runExc' = Reraise(runExc)
    /\ run' = AbortOutcome
    /\ UNCHANGED <<cfg, selVars, taskVars, calls, results, collected, completed,
                   counter, last_reported>>

(***************************************************************************)
(* SpecTask.                                                               *)
(***************************************************************************)
Strategies == {"thread", "process"}

\* With a progress callback, in debug mode, or with the progress bar.
Modes == {"callback", "debug", "tqdm"}

\* Runs of more than MaxItems items are explored with a single worker process.
ItemCounts(strategy, w) ==
    IF strategy = "process" /\ w = 1 THEN 0..MaxBatchItems ELSE 0..MaxItems

\* The cron selector is no part of this specification.
CronIdle == [pc |-> "off"]

\* Nor are find_nearest, dayslice and the ImageSet: no call is in progress.
CallIdle == [pc |-> "off"]

\* No client follows the task's progress.
StreamIdle == [pc |-> "off"]

\* No clear_target call is made.
ClearIdle == [pc |-> "off"]

InitTask ==
    /\ \E s \in Strategies, m \in Modes, w \in 1..MaxWorkers :
         \E n \in ItemCounts(s, w) :
           \E r \in {x \in SUBSET (1..n) : Cardinality(x) <= MaxRaisers}, k \in ExcKinds :
             /\ (r = {} => k = "ValueError")
             /\ cfg = [strategy |-> s, mode |-> m, workers |-> w, n |-> n,
                       raisers |-> r, kind |-> k]
             /\ calls = [i \in 1..n |-> 0]
    /\ task = NewTask
    /\ cancel_requested = FALSE
    /\ tpc = "created"
    /\ lastCancel = [id |-> "none", saw |-> "none", ret |-> FALSE]
    /\ cancelSeen = FALSE
    /\ run = "idle"
    /\ runExc = NoExc
    /\ fut = [f \in Futures |-> [NewFuture EXCEPT !.st = "unsubmitted"]]
    /\ results = <<>>
    /\ collected = {}
    /\ completed = 0
    /\ counter = 0
    /\ cancel_flag = FALSE
    /\ last_reported = 0
    /\ cron = CronIdle
    /\ nearest = CallIdle
    /\ slice = CallIdle
    /\ iset = CallIdle
    /\ stream = StreamIdle
    /\ clear = ClearIdle

NextTask ==
    \/ T_Start
    \/ T_StartedAt
    \/ Submit
    \/ \E f \in Futures : StartItem(f)
    \/ \E f \in Futures : FinishItem(f)
    \/ \E f \in Futures : StartChunk(f)
    \/ \E f \in Futures : BatchCheck(f)
    \/ \E f \in Futures : BatchCall(f)
    \/ \E f \in Futures : CollectOne(f)
    \/ Poll
    \/ FinalPoll
    \/ Return
    \/ Abort
    \/ T_Result
    \/ T_Completed
    \/ T_Progress100
    \/ T_Except
    \/ T_Error
    \/ T_Finally
    \/ \E id \in TaskIds : CancelTask(id)

SpecTask == InitTask /\ [][NextTask]_vars

(***************************************************************************)
(* Properties of the task wrapper and the executor (SpecTask).             *)
(***************************************************************************)
\* The multiset of the elements of a list.
BagOfSeq(q) ==
    [x \in {q[i] : i \in DOMAIN q} |-> Cardinality({i \in DOMAIN q : q[i] = x})]

\* One result per item: transform(item, index) for every position of the list.
ExpectedResults == [i \in 1..cfg.n |-> Transform(ItemAt(i), i - 1)]

\* C1: a run that returns, under either strategy, has called the transform
\* exactly once per item, with the item's position as index, and returns
\* exactly the multiset of the per-item results; so the lists returned by the
\* two strategies are equal as multisets.
C1_OncePerItemSameMultiset ==
    run = "returned" =>
        /\ \A i \in 1..cfg.n : calls[i] = 1
        /\ Len(results) = cfg.n
        /\ BagOfSeq(results) = BagOfSeq(ExpectedResults)

\* A process-strategy run over chunks of two items has returned.
C1_Witness ==
    /\ run = "returned"
    /\ Batched
    /\ RunChunkSize = 2
    /\ cfg.n = MaxBatchItems

\* The last cancel_task call was made on the running task and accepted.
AcceptedWhileRunning ==
    /\ lastCancel.id = TaskId
    /\ lastCancel.saw = "running"
    /\ lastCancel.ret

StatusSteps ==
    {<<"pending", "running">>, <<"running", "completed">>,
     <<"running", "failed">>, <<"running", "cancelled">>}

ThreadEnded == tpc \in {"done", "died"}

\* C4: when the transform of the task's run has raised, the task ends failed
\* and task.error contains the original exception's message.
C4_RaiseEndsFailed ==
    ThreadEnded /\ run = "raised" /\ runExc.origin = "transform" =>
        /\ task.status = "failed"
        /\ task.error.some
        /\ "boom" \in task.error.text

\* C5: a run in which the transform raises returns no result list; it raises
\* an exception of the original exception's type whose message is the
\* formatted stack trace of the original failure.
C5_SameTypeTraceMessage ==
    /\ run = "returned" => cfg.raisers = {}
    /\ run = "raised" /\ runExc.origin = "transform" =>
        /\ runExc.type = runExc.otype
        /\ runExc.msg = FormatExc(OrigExc(runExc.otype))

\* C6: when the worker thread has ended, whatever the function raised, the
\* task is in a terminal status.
C6_ThreadEndsTerminal ==
    ThreadEnded => task.status \in Terminal

ThreadWithCallback == cfg.strategy = "thread" /\ cfg.mode = "callback"

\* C20: in a thread-strategy run with a progress callback, every result
\* taken from a future is followed by one invocation of the callback, the
\* k-th being callback(k, total, ""), which the task's closure records unless
\* it raises; a run that returns has made exactly total invocations.
C20_CallbackOncePerItem ==
    /\ [][ThreadWithCallback =>
            /\ (results' # results \/ completed' # completed) =>
                  /\ completed' = completed + 1
                  /\ Len(results') = completed'
                  /\ (~cancel_requested =>
                        /\ task'.current = completed'
                        /\ task'.total = cfg.n
                        /\ task'.message = "")
            /\ (task'.current # task.current => completed' = completed + 1)]_vars
    /\ [](ThreadWithCallback /\ run = "returned" =>
            /\ completed = cfg.n
            /\ Len(results) = cfg.n
            /\ task.current = cfg.n)

\* A thread-strategy run of MaxItems items has returned after reporting
\* every item to the task.
C20_Witness ==
    /\ ThreadWithCallback
    /\ run = "returned"
    /\ cfg.n = MaxItems
    /\ completed = MaxItems
    /\ task.current = MaxItems

\* C21: in a process-strategy run that polls the shared counter, the
\* callback is invoked only with a counter value that differs from the last
\* one reported, so the reported counts strictly increase and never exceed
\* the total; what the task's closure records is the count just reported;
\* and a run of at least one item that returns has reported the total last.
C21_ReportedCountsIncrease ==
    /\ [][Polling =>
            /\ (last_reported' # last_reported =>
                  /\ last_reported < last_reported'
                  /\ last_reported' = counter
                  /\ last_reported' <= cfg.n)
            /\ (task'.current # task.current =>
                  /\ last_reported' # last_reported
                  /\ task'.current = last_reported')]_vars
    /\ [](Polling /\ run = "returned" /\ cfg.n > 0 => last_reported = cfg.n)

\* A process-strategy run of MaxBatchItems items with the task's closure as
\* callback has returned, the total being the count reported last.
C21_Witness ==
    /\ Polling
    /\ cfg.mode = "callback"
    /\ run = "returned"
    /\ cfg.n = MaxBatchItems
    /\ last_reported = MaxBatchItems
    /\ task.current = MaxBatchItems
    /\ task.progress = [num |-> 100 * MaxBatchItems, den |-> MaxBatchItems]

\* C22: once the worker thread has ended, a task whose status is completed,
\* failed or cancelled has finished_at set; and finished_at is set only on a
\* task whose status is one of these.
C22_FinishedAtIffTerminal ==
    /\ (ThreadEnded /\ task.status \in Terminal => task.finished_at)
    /\ (task.finished_at => task.status \in Terminal)

\* The items of chunk f that the transform has been called on.
Begun(f) == {i \in 0..(ChunkLen(f) - 1) : calls[ItemIndex(f, i) + 1] > 0}

\* C24: the handler of an aborted process-strategy run sets the shared
\* cancel flag and cancels every future that has not started, without waiting
\* for the running ones; once the flag is set no worker passes a flag check
\* again, so that a worker completes at most the call whose check preceded
\* the set and then stops its chunk; and no item of a cancelled chunk is ever
\* processed.
C24_AbortStopsWorkers ==
    /\ [][Batched =>
            /\ (run = "aborting" /\ run' # run =>
                  /\ cancel_flag'
                  /\ run' = "raised"
                  /\ \A f \in Futures :
                        /\ fut[f].st = "pending" => fut'[f].st = "cancelled"
                        /\ fut[f].st # "pending" => fut'[f] = fut[f])
            /\ (cancel_flag =>
                  /\ cancel_flag'
                  /\ calls' = calls
                  /\ \A f \in Futures :
                        /\ fut[f].phase = "check" =>
                              /\ fut'[f].pos = fut[f].pos
                              /\ fut'[f].phase = "check"
                              /\ fut'[f].st \in {fut[f].st, "finished"}
                        /\ fut[f].phase = "call" =>
                              fut'[f].pos \in {fut[f].pos, fut[f].pos + 1})]_vars
    /\ [](Batched =>
            \A f \in Futures :
                fut[f].st = "cancelled" => fut[f].pos = 0 /\ Begun(f) = {})

\* An aborted process-strategy run has raised: one chunk of two items stopped
\* at the flag after its first item, and another was cancelled before it
\* started.
C24_Witness ==
    /\ Batched
    /\ run = "raised"
    /\ cancel_flag
    /\ \E f, h \in Futures :
          /\ fut[f].st = "finished"
          /\ fut[f].exc = NoExc
          /\ fut[f].pos = 1
          /\ ChunkLen(f) = 2
          /\ fut[h].st = "cancelled"

\* The progress callback has raised in this run.
CallbackRaised == runExc.origin = "callback"

\* C25: once the progress callback has raised during a run, under either
\* strategy, the callback is not invoked again and nothing more is collected,
\* the run never returns a result list, the handler cancels every future
\* that has not started, and the run ends by raising the callback's
\* exception unchanged.
C25_CallbackRaisePropagates ==
    /\ [][CallbackRaised =>
            /\ task'.current = task.current
            /\ task'.total = task.total
            /\ task'.message = task.message
            /\ completed' = completed
            /\ last_reported' = last_reported
            /\ results' = results
            /\ collected' = collected
            /\ runExc' = runExc
            /\ run' \in {run, "raised"}]_vars
    /\ [](CallbackRaised =>
            /\ run \in {"aborting", "raised"}
            /\ runExc = TaskCancelled
            /\ ~task.result.some
            /\ (run = "raised" => \A f \in Futures : fut[f].st # "pending"))

\* A thread-strategy run has raised the exception of its callback, which had
\* recorded one result before; a future that had not started was cancelled.
C25_Witness ==
    /\ CallbackRaised
    /\ cfg.strategy = "thread"
    /\ run = "raised"
    /\ task.current = 1
    /\ completed = 2
    /\ \E f \in Futures : fut[f].st = "cancelled"

\* s is max(1, ceil(total / (workers * 4))).
IsChunkSize(s, total, workers) ==
    /\ s >= 1
    /\ s * workers * ChunksPerWorker >= total
    /\ (s > 1 => (s - 1) * workers * ChunksPerWorker < total)

\* C27: in a process-strategy run the chunks have size
\* max(1, ceil(total / (workers * 4))); they are consecutive, the first
\* starting at position 0 and the last ending at the end of the list, so
\* that every position of the item list lies in exactly one chunk; there are
\* at most workers * 4 chunks; and a worker
\* goes through its chunk in list order: what it has produced are the
\* results of its first items, each called with the index chunk start plus
\* offset, and no later item of the chunk has been called.
C27_ChunksPartitionInOrder ==
    Batched =>
        /\ IsChunkSize(RunChunkSize, cfg.n, cfg.workers)
        /\ NumFutures <= cfg.workers * ChunksPerWorker
        /\ (cfg.n > 0 => ChunkStart(1) = 0)
        /\ \A f \in Futures :
              \A start \in {ChunkStart(f)}, len \in {ChunkLen(f)}, pos \in {fut[f].pos} :
                  /\ len >= 1
                  /\ len <= RunChunkSize
                  /\ start + len = (IF f = NumFutures THEN cfg.n ELSE ChunkStart(f + 1))
                  /\ pos <= len
                  /\ Len(fut[f].part) = pos
                  /\ \A k \in 1..pos :
                        /\ fut[f].part[k] = Transform(ItemAt(start + k), start + k - 1)
                        /\ calls[start + k] = 1
                  /\ \A k \in (pos + 1)..len :
                        calls[start + k] =
                            IF k = pos + 1 /\ fut[f].phase = "call" THEN 1 ELSE 0

\* A process-strategy run of MaxBatchItems items in three chunks: the second
\* chunk has produced its two results, the third, of one item, has not begun.
C27_Witness ==
    /\ Batched
    /\ cfg.n = MaxBatchItems
    /\ RunChunkSize = 2
    /\ NumFutures = 3
    /\ fut[2].pos = 2
    /\ fut[2].part = <<Transform(ItemAt(3), 2), Transform(ItemAt(4), 3)>>
    /\ ChunkLen(3) = 1
    /\ fut[3].pos = 0

\* The number of transform calls that have returned and been counted by the
\* workers of the chunks in S.
RECURSIVE Counted(_)
Counted(S) ==
    IF S = {} THEN 0
    ELSE LET f == CHOOSE x \in S : TRUE IN fut[f].pos + Counted(S \ {f})

\* C28: in every state of a process-strategy run, however the workers
\* interleave, the shared counter is the number of transform calls that have
\* returned and been counted, and it is at most the total; and no step
\* decreases it.
C28_CounterCountsReturnedCalls ==
    /\ [](Batched => counter = Counted(Futures) /\ counter <= cfg.n)
    /\ [][Batched => counter' >= counter]_vars

\* One call has been counted while two worker processes are both in a call
\* of their own.
C28_Witness ==
    /\ Batched
    /\ cfg.workers = MaxWorkers
    /\ counter = 1
    /\ run = "collecting"
    /\ \E f, g \in Futures :
          /\ f # g
          /\ fut[f].st = "running" /\ fut[f].phase = "call"
          /\ fut[g].st = "running" /\ fut[g].phase = "call"

(***************************************************************************)
(* SpecProgress: a task whose job calls the progress closure itself, with  *)
(* any arguments, as the jobs of web/tests.py do, and then returns or      *)
(* raises.                                                                 *)
(***************************************************************************)
\* Messages a job passes to the closure.
Messages == {"", "halfway"}

\* The job calls progress_callback(c, total, message).
JobProgress(c, total, message) ==
    /\ tpc = "call"
    /\ run = "idle"
    /\ IF ProgressRaises
       THEN /\ run' = "raised"
            /\ runExc' = TaskCancelled
            /\ cancelSeen' = TRUE
            /\ task' = task
       ELSE /\ task' = Progress(task, c, total, message)
            /\ UNCHANGED <<run, runExc, cancelSeen>>
    /\ UNCHANGED <<cfg, selVars, cancel_requested, tpc, lastCancel, fut, calls,
                   results, collected, completed, counter, cancel_flag,
                   last_reported>>

\* The job returns its value.
JobReturn ==
    /\ tpc = "call"
    /\ run = "idle"
    /\ run' = "returned"
    /\ UNCHANGED <<cfg, selVars, taskVars, runExc, fut, calls, results, collected,
                   completed, counter, cancel_flag, last_reported>>

\* The job raises.
JobRaise(kind) ==
    /\ tpc = "call"
    /\ run = "idle"
    /\ run' = "raised"
    /\ runExc' = OrigExc(kind)
    /\ UNCHANGED <<cfg, selVars, taskVars, fut, calls, results, collected,
                   completed, counter, cancel_flag, last_reported>>

\* Task.to_dict: the fields sent to a client; the result is not among them.
to_dict(t) ==
    [id |-> t.id, status |-> t.status, progress |-> t.progress,
     current |-> t.current, total |-> t.total, message |-> t.message,
     error |-> t.error, started_at |-> t.started_at, finished_at |-> t.finished_at]

\* api_task_progress.event_generator, lines 50-60: one round of the loop. The
\* task is read and sent as a progress event; the stream ends when the status
\* just sent is a terminal one.
ApiTaskProgress ==
    /\ stream.pc = "polling"
    /\ stream' = [pc |-> IF task.status \in Terminal THEN "closed" ELSE "polling",
                  sent |-> TRUE, last |-> to_dict(task)]
    /\ UNCHANGED <<cfg, taskVars, execVars, cron, nearest, slice, iset, clear>>

\* api_task_progress.event_generator, lines 50 and 62-65: the shutdown event
\* is set, the stream ends.
ApiShutdown ==
    /\ stream.pc = "polling"
    /\ stream' = [stream EXCEPT !.pc = "shutdown"]
    /\ UNCHANGED <<cfg, taskVars, execVars, cron, nearest, slice, iset, clear>>

InitProgress ==
    /\ cfg = [strategy |-> "thread", mode |-> "callback", workers |-> 1, n |-> 0,
              raisers |-> {}, kind |-> "ValueError"]
    /\ calls = <<>>
    /\ task = NewTask
    /\ cancel_requested = FALSE
    /\ tpc = "created"
    /\ lastCancel = [id |-> "none", saw |-> "none", ret |-> FALSE]
    /\ cancelSeen = FALSE
    /\ run = "idle"
    /\ runExc = NoExc
    /\ fut = <<>>
    /\ results = <<>>
    /\ collected = {}
    /\ completed = 0
    /\ counter = 0
    /\ cancel_flag = FALSE
    /\ last_reported = 0
    /\ cron = CronIdle
    /\ nearest = CallIdle
    /\ slice = CallIdle
    /\ iset = CallIdle
    /\ stream = [pc |-> "polling", sent |-> FALSE, last |-> to_dict(NewTask)]
    /\ clear = ClearIdle

NextProgress ==
    \/ T_Start
    \/ T_StartedAt
    \/ \E c \in 0..MaxValue, total \in 0..MaxValue, message \in Messages :
          JobProgress(c, total, message)
    \/ JobReturn
    \/ \E kind \in ExcKinds : JobRaise(kind)
    \/ T_Result
    \/ T_Completed
    \/ T_Progress100
    \/ T_Except
    \/ T_Error
    \/ T_Finally
    \/ \E id \in TaskIds : CancelTask(id)
    \/ ApiTaskProgress
    \/ ApiShutdown

SpecProgress == InitProgress /\ [][NextProgress]_vars

\* The value of a fraction is p per cent of c / total.
IsPercentOf(fraction, c, total) == fraction.num * total = c * 100 * fraction.den

\* C23: each invocation progress(completed, total, message) of the closure
\* that returns sets task.current, task.total and task.message to its
\* arguments and task.progress to completed / total * 100 when total > 0 and
\* to 0 when total = 0; and a task that has ended completed has progress 100
\* whatever was reported last.
C23_ClosureSetsProgress ==
    /\ [][\A c \in 0..MaxValue, total \in 0..MaxValue, message \in Messages :
            JobProgress(c, total, message) /\ run' = run =>
                /\ task'.current = c
                /\ task'.total = total
                /\ task'.message = message
                /\ (total > 0 => IsPercentOf(task'.progress, c, total))
                /\ (total = 0 => task'.progress.num = 0)]_vars
    /\ [](ThreadEnded /\ task.status = "completed" =>
            task.progress.num = 100 * task.progress.den)

\* A task has ended completed after its job last reported 1 of MaxValue.
C23_Witness ==
    /\ ThreadEnded
    /\ task.status = "completed"
    /\ task.current = 1
    /\ task.total = MaxValue
    /\ task.message = "halfway"
    /\ task.progress = [num |-> 100, den |-> 1]

\* A terminal status read from t comes with its payload.
CarriesPayload(t) ==
    /\ (t.status = "failed" => t.error.some /\ t.finished_at)
    /\ (t.status = "completed" =>
          t.progress.num = 100 * t.progress.den /\ t.finished_at)

\* C29: whenever a polling thread can read the task, a failed status comes
\* with the error already set, a completed status with the result already
\* set and progress 100, and both with finished_at already set; so the last
\* event of a progress stream that ended on a terminal status carries the
\* final payload.
C29_TerminalStatusCarriesPayload ==
    /\ CarriesPayload(task)
    /\ (task.status = "completed" => task.result.some)
    /\ (stream.pc = "closed" => CarriesPayload(stream.last))

(***************************************************************************)
(* Cron-based filtering (img_seq/lapsetime.py). Instants are seconds since *)
(* 00:00:00 of day 0; day 0 is a Monday. A path is a number, ordered as    *)
(* the path strings are.                                                   *)
(***************************************************************************)
MinutesPerHour == 60

SecondsPerHour == MinutesPerHour * SecondsPerMinute

HoursPerDay == 24

SecondsPerDay == HoursPerDay * SecondsPerHour

Weekdays == 0..6

\* datetime.date(): the calendar day of an instant.
DateOf(t) == t \div SecondsPerDay

DayOfWeek(d) == d % Cardinality(Weekdays)

\* datetime.timedelta.seconds: the seconds field of the normalised difference
\* (days, seconds), 0 <= seconds < 86400, whatever the sign of the difference.
TimedeltaSeconds(delta) == delta % SecondsPerDay

SetMin(S) == CHOOSE x \in S : \A y \in S : x <= y

SetMax(S) == CHOOSE x \in S : \A y \in S : x >= y

\* The times of day at which a cron trigger with the given hour and minute
\* fields (second 0) fires.
TimesOfDay(trigger) ==
    {h * SecondsPerHour + m * SecondsPerMinute :
        h \in trigger.hours, m \in trigger.minutes}

\* None, where an instant is expected.
NoneDt == -1

\* The year field of a trigger: not given, or given, the last day of its last
\* year then being the last day the trigger can fire on.
AnyYear == [given |-> FALSE, last |-> 0]

YearsUntil(day) == [given |-> TRUE, last |-> day]

\* The day matches the day_of_week and year fields.
DayMatches(trigger, d) ==
    /\ DayOfWeek(d) \in trigger.dows
    /\ (trigger.year.given => d <= trigger.year.last)

\* The cron evaluator: the first fire instant at or after start, None when
\* the fields match no instant from start on.
NextFire(trigger, start) ==
    LET d == DateOf(start)
        later == {x \in TimesOfDay(trigger) : x >= start % SecondsPerDay}
        days == {e \in (d + 1)..(d + Cardinality(Weekdays)) : DayMatches(trigger, e)}
    IN  IF DayMatches(trigger, d) /\ later # {}
        THEN d * SecondsPerDay + SetMin(later)
        ELSE IF days = {} THEN NoneDt
        ELSE SetMin(days) * SecondsPerDay + SetMin(TimesOfDay(trigger))

\* CronTrigger.get_next_fire_time(previous_fire_time, now): the search starts
\* at min(now, previous + 1 microsecond), moved one microsecond on when that
\* is previous itself; fire instants are whole seconds. Instants are given
\* here in seconds, previous = -1 standing for one microsecond before now.
GetNextFireTime(trigger, previous, now) ==
    IF previous = -1 THEN NextFire(trigger, now)
    ELSE NextFire(trigger, previous + 1)

\* get_fire_times, lines 181-192: the fire instants from the start of the day
\* on, up to and including the first one that falls on another date. The
\* loop ends at a None: next_fire.replace (line 189) raises AttributeError.
RECURSIVE FireTimesFrom(_, _, _)
FireTimesFrom(trigger, day, previous) ==
    LET next_fire == IF previous = -1
                     THEN GetNextFireTime(trigger, -1, day * SecondsPerDay)
                     ELSE GetNextFireTime(trigger, previous, previous)
    IN  IF next_fire # NoneDt /\ DateOf(next_fire) = day
        THEN <<next_fire>> \o FireTimesFrom(trigger, day, next_fire)
        ELSE <<next_fire>>

\* The list returned; a list that ends in None stands for the call that
\* raised AttributeError and returned nothing.
get_fire_times(trigger, day) == FireTimesFrom(trigger, day, -1)

\* The call of get_fire_times ended in the AttributeError.
RaisedOnNone(times) == times[Len(times)] = NoneDt

\* find_nearest_dt, lines 163-166: the candidates are the timestamps x with
\* (x - target_dt).seconds <= fuzzy * 60; the result is the candidate of
\* least (signed) x - target_dt.
find_nearest_dt(target_dt, dtlist, fuzzy) ==
    LET candidates == {x \in dtlist :
                          TimedeltaSeconds(x - target_dt) <= fuzzy * SecondsPerMinute}
    IN  IF candidates = {} THEN NoneDt ELSE SetMin(candidates)

\* An image index: for each day-key the files of that day, a file being a
\* pair <<path, timestamp>>.
IndexOf(files) ==
    [d \in {DateOf(f[2]) : f \in files} |-> {f \in files : DateOf(f[2]) = d}]

\* reverse_day_set[key], lines 216-217: of the files of the day with that
\* timestamp, the last in (timestamp, path) order.
ReversePath(dayfiles, key) == SetMax({f[1] : f \in {g \in dayfiles : g[2] = key}})

\* time_keys, line 220, each with the day processed, its fire instant and
\* the path it selects.
TimeKeys(trigger, day, dayfiles, fuzzy) ==
    LET fire_times == get_fire_times(trigger, day)
        day_timestamps == {f[2] : f \in dayfiles}
    IN  [i \in DOMAIN fire_times |->
            LET key == find_nearest_dt(fire_times[i], day_timestamps, fuzzy)
            IN  [day |-> day, ft |-> fire_times[i], key |-> key,
                 path |-> IF key = NoneDt THEN 0 ELSE ReversePath(dayfiles, key)]]

\* Lines 221-223: the path of every key that is not None, in order.
RECURSIVE SelectedPaths(_)
SelectedPaths(keys) ==
    IF keys = <<>> THEN <<>>
    ELSE (IF Head(keys).key = NoneDt THEN <<>> ELSE <<Head(keys).path>>)
         \o SelectedPaths(Tail(keys))

\* A mutant of DayIsActive: every day of the index is processed.
DayIsActiveAlways(trigger, day) == TRUE

\* Lines 211-213: the day is processed when the next fire instant after its
\* start is on the same date.
DayIsActive(trigger, day) ==
    DateOf(GetNextFireTime(trigger, day * SecondsPerDay, day * SecondsPerDay)) = day

\* cron_image_filter, lines 207-223: one iteration of the loop over the
\* sorted days of the index.
CronDay ==
    /\ cron.pc = "loop"
    /\ cron.days # {}
    /\ LET day == SetMin(cron.days)
           keys == TimeKeys(cron.trigger, day, cron.index[day], cron.fuzzy)
       IN  IF DayIsActive(cron.trigger, day)
           THEN cron' = [cron EXCEPT !.days = @ \ {day},
                                     !.time_keys = @ \o keys,
                                     !.images = @ \o SelectedPaths(keys)]
           ELSE cron' = [cron EXCEPT !.days = @ \ {day}]
    /\ UNCHANGED <<cfg, taskVars, execVars, stream, clear, nearest, slice, iset>>

\* cron_image_filter, line 225.
CronReturn ==
    /\ cron.pc = "loop"
    /\ cron.days = {}
    /\ cron' = [cron EXCEPT !.pc = "done"]
    /\ UNCHANGED <<cfg, taskVars, execVars, stream, clear, nearest, slice, iset>>

(***************************************************************************)
(* SpecCron.                                                               *)
(***************************************************************************)
At(day, hour, minute, second) ==
    day * SecondsPerDay + hour * SecondsPerHour + minute * SecondsPerMinute + second

\* The files an index is drawn from: around the fire instants of the
\* triggers below, before and after them, two with the same timestamp, on
\* two days.
FilePool ==
    {<<1, At(0, 0, 0, 0)>>, <<2, At(0, 0, 1, 0)>>, <<3, At(0, 9, 58, 0)>>,
     <<4, At(0, 10, 0, 0)>>, <<5, At(0, 10, 3, 0)>>, <<6, At(0, 10, 3, 0)>>,
     <<7, At(0, 10, 7, 30)>>, <<8, At(0, 23, 58, 0)>>, <<9, At(1, 10, 0, 0)>>}

\* One image per minute for the whole of day 0.
FullDayFiles ==
    {<<m + 1, m * SecondsPerMinute>> : m \in 0..(HoursPerDay * MinutesPerHour - 1)}

\* Once per hour on the hour.
Hourly == [hours |-> 0..(HoursPerDay - 1), minutes |-> {0}, dows |-> Weekdays, year |-> AnyYear]

\* Every minute of hour 10.
EveryMinuteOfTen == [hours |-> {10}, minutes |-> 0..(MinutesPerHour - 1), dows |-> Weekdays, year |-> AnyYear]

\* At 10:00 and 10:05 on Tuesdays only.
Tuesdays == [hours |-> {10}, minutes |-> {0, 5}, dows |-> {1}, year |-> AnyYear]

Triggers == {Hourly, EveryMinuteOfTen, Tuesdays}

FuzzyChoices == {0, DefaultFuzzy}

NewCron(scenario, files, trigger, fuzzy) ==
    [pc |-> "loop", scenario |-> scenario, index |-> IndexOf(files),
     trigger |-> trigger, fuzzy |-> fuzzy, days |-> DOMAIN IndexOf(files),
     time_keys |-> <<>>, images |-> <<>>]

\* The task and the executor are no part of this specification.
TaskIdle ==
    /\ cfg = [strategy |-> "thread", mode |-> "debug", workers |-> 1, n |-> 0,
              raisers |-> {}, kind |-> "ValueError"]
    /\ calls = <<>>
    /\ task = NewTask
    /\ cancel_requested = FALSE
    /\ tpc = "off"
    /\ lastCancel = [id |-> "none", saw |-> "none", ret |-> FALSE]
    /\ cancelSeen = FALSE
    /\ run = "idle"
    /\ runExc = NoExc
    /\ fut = <<>>
    /\ results = <<>>
    /\ collected = {}
    /\ completed = 0
    /\ counter = 0
    /\ cancel_flag = FALSE
    /\ last_reported = 0

InitCron ==
    /\ TaskIdle
    /\ nearest = CallIdle
    /\ slice = CallIdle
    /\ iset = CallIdle
    /\ stream = StreamIdle
    /\ clear = ClearIdle
    /\ \/ \E files \in SUBSET FilePool, trigger \in Triggers, fuzzy \in FuzzyChoices :
            /\ Cardinality(files) <= MaxFiles
            /\ cron = NewCron("pool", files, trigger, fuzzy)
       \/ cron = NewCron("fullday", FullDayFiles, Hourly, DefaultFuzzy)

NextCron ==
    \/ CronDay
    \/ CronReturn

SpecCron == InitCron /\ [][NextCron]_vars

(***************************************************************************)
(* Properties of cron_image_filter (SpecCron).                             *)
(***************************************************************************)
\* The files of the day within fuzzy minutes of the fire instant ft, before
\* or after it.
Within(dayfiles, ft, fuzzy) ==
    {f \in dayfiles : Abs(f[2] - ft) <= fuzzy * SecondsPerMinute}

\* C8: for every fire instant on an active day, the file selected for it is a
\* file of that day at the least absolute distance from the instant, when
\* that distance is at most fuzzy minutes, and no file is selected for it
\* when the day has no file within fuzzy minutes of it.
C8_NearestByAbsoluteDifference ==
    \A i \in DOMAIN cron.time_keys :
        LET k == cron.time_keys[i]
        IN  DateOf(k.ft) = k.day =>
              LET near == Within(cron.index[k.day], k.ft, cron.fuzzy)
              IN  IF near = {} THEN k.key = NoneDt
                  ELSE /\ k.key # NoneDt
                       /\ \E f \in near : f[1] = k.path
                       /\ \A f \in near : Abs(k.key - k.ft) <= Abs(f[2] - k.ft)

\* C9: no path occurs twice in the list cron_image_filter returns.
C9_NoDuplicatePath ==
    cron.pc = "done" =>
        \A i, j \in DOMAIN cron.images :
            cron.images[i] = cron.images[j] => i = j

\* C10: for the index of one image per minute of one day and the hourly
\* trigger, the returned list has exactly 24 entries.
C10_FullDayHourlyGives24 ==
    cron.pc = "done" /\ cron.scenario = "fullday" =>
        Len(cron.images) = HoursPerDay

\* The schedule has a fire instant on the calendar date d.
FiresOn(trigger, d) ==
    DayOfWeek(d) \in trigger.dows /\ TimesOfDay(trigger) # {}

GetFireTimes ==
    /\ cron.pc = "fire"
    /\ LET times == get_fire_times(cron.trigger, cron.day) IN
       IF RaisedOnNone(times)
       THEN cron' = [cron EXCEPT !.pc = "raised"]
       ELSE cron' = [cron EXCEPT !.pc = "returned", !.times = times]
    /\ UNCHANGED <<cfg, taskVars, execVars, stream, clear, nearest, slice, iset>>

\* The hour fields "*", "9-17" and "10".
FireHours == {0..(HoursPerDay - 1), 9..17, {10}}

\* The minute fields "0", "*/30" and "0,5".
FireMinutes == {{0}, {0, 30}, {0, 5}}

\* The day_of_week fields "*" and "tue".
FireDows == {Weekdays, {1}}

\* The year field: not given, or one whose last day is day 1.
FireYears == {AnyYear, YearsUntil(1)}

FireTriggers ==
    [hours : FireHours, minutes : FireMinutes, dows : FireDows, year : FireYears]

InitFire ==
    /\ TaskIdle
    /\ nearest = CallIdle
    /\ slice = CallIdle
    /\ iset = CallIdle
    /\ stream = StreamIdle
    /\ clear = ClearIdle
    /\ \E trigger \in FireTriggers, day \in 0..MaxDay :
          cron = [pc |-> "fire", trigger |-> trigger, day |-> day, times |-> <<>>]

NextFire1 ==
    \/ GetFireTimes

SpecFire == InitFire /\ [][NextFire1]_vars

\* t is an instant at which the trigger fires.
IsFire(trigger, t) ==
    /\ DayMatches(trigger, DateOf(t))
    /\ t % SecondsPerDay \in TimesOfDay(trigger)

\* The fire instants of the trigger on the day.
FiresOfDay(trigger, day) ==
    {t \in (day * SecondsPerDay)..((day + 1) * SecondsPerDay - 1) : IsFire(trigger, t)}

\* t is the first fire instant on a date after day.
FirstFireAfter(trigger, day, t) ==
    /\ IsFire(trigger, t)
    /\ DateOf(t) > day
    /\ t % SecondsPerDay = SetMin(TimesOfDay(trigger))
    /\ \A e \in (day + 1)..(DateOf(t) - 1) : ~DayMatches(trigger, e)

\* The list holds the fire instants of the day, in order, and then the
\* first fire instant after the day.
FireListOf(trigger, day, times) ==
    /\ times # <<>>
    /\ \A i \in 1..(Len(times) - 1) : times[i] < times[i + 1]
    /\ {times[i] : i \in 1..(Len(times) - 1)} = FiresOfDay(trigger, day)
    /\ FirstFireAfter(trigger, day, times[Len(times)])

\* C26: for any schedule and date, get_fire_times returns, in strictly
\* increasing order, every fire instant on that date followed by exactly one
\* more instant, the first fire instant on a later date; so an hourly
\* schedule yields 25 instants, a half-hourly one 49 and an hourly one
\* limited to hours 9-17 yields 10.
C26_FiresOfDayPlusOne ==
    cron.pc # "fire" =>
        /\ cron.pc = "returned"
        /\ FireListOf(cron.trigger, cron.day, cron.times)
        /\ (cron.trigger.dows = Weekdays /\ cron.trigger.minutes = {0} =>
              /\ (cron.trigger.hours = 0..(HoursPerDay - 1) =>
                    Len(cron.times) = HoursPerDay + 1)
              /\ (cron.trigger.hours = 9..17 => Len(cron.times) = 10))
        /\ (cron.trigger.dows = Weekdays /\ cron.trigger.minutes = {0, 30}
              /\ cron.trigger.hours = 0..(HoursPerDay - 1) =>
                    Len(cron.times) = 2 * HoursPerDay + 1)

(***************************************************************************)
(* find_nearest (img_seq/lapsetime.py). A list is a sequence, its Python   *)
(* index i being position i + 1.                                           *)
(***************************************************************************)
\* None, as returned by find_nearest.
NoMatch == <<>>

\* A mutant of Better: a later element at the same distance replaces the
\* best one.
BetterOrEqual(d, best) == d <= best

\* min(..., key=...), line 151: an element replaces the best one seen so far
\* only when its key is smaller, so the first of the least ones is returned.
Better(d, best) == d < best

\* min(enumerate(array), key=lambda x: abs(x[1] - value)), line 151: the
\* position of the minimum of the positions from i on and of best.
RECURSIVE ArgMinFrom(_, _, _, _)
ArgMinFrom(array, value, i, best) ==
    IF i > Len(array) THEN best
    ELSE ArgMinFrom(array, value, i + 1,
                    IF Better(Abs(array[i] - value), Abs(array[best] - value))
                    THEN i ELSE best)

\* A mutant of CloseEnough: the tolerance itself is too far.
CloseEnoughStrict(item, value, fuzzyness) == Abs(value - item) < fuzzyness

\* Line 152.
CloseEnough(item, value, fuzzyness) == Abs(value - item) <= fuzzyness

\* find_nearest, lines 149-154: None for an empty list; else the (item, idx)
\* of the minimum when it is within fuzzyness, None otherwise.
find_nearest(array, value, fuzzyness) ==
    IF array = <<>> THEN NoMatch
    ELSE LET pos == ArgMinFrom(array, value, 2, 1)
         IN  IF CloseEnough(array[pos], value, fuzzyness)
             THEN <<array[pos], pos - 1>>
             ELSE NoMatch

\* The call returns.
FindNearest ==
    /\ nearest.pc = "call"
    /\ nearest' = [nearest EXCEPT
                      !.pc = "done",
                      !.ret = find_nearest(nearest.array, nearest.value,
                                           nearest.fuzzyness)]
    /\ UNCHANGED <<cfg, taskVars, execVars, stream, clear, cron, slice, iset>>

(***************************************************************************)
(* SpecNearest: one call of find_nearest.                                  *)
(***************************************************************************)
\* The sequences of at most n elements of S.
SeqsUpTo(S, n) == UNION {[1..k -> S] : k \in 0..n}

NewNearest(array, value, fuzzyness) ==
    [pc |-> "call", array |-> array, value |-> value, fuzzyness |-> fuzzyness,
     ret |-> NoMatch]

\* The call of the tie-break example: find_nearest([5, 15], 10, 5).
TieExample == NewNearest(<<5, 15>>, 10, 5)

InitNearest ==
    /\ TaskIdle
    /\ cron = CronIdle
    /\ slice = CallIdle
    /\ iset = CallIdle
    /\ stream = StreamIdle
    /\ clear = ClearIdle
    /\ \/ \E array \in SeqsUpTo((-1)..MaxValue, MaxLen),
             value \in (-2)..(MaxValue + 1), fuzzyness \in 0..MaxTolerance :
            nearest = NewNearest(array, value, fuzzyness)
       \/ nearest = TieExample

NextNearest == FindNearest

SpecNearest == InitNearest /\ [][NextNearest]_vars

(***************************************************************************)
(* Properties of find_nearest (SpecNearest).                               *)
(***************************************************************************)
\* C12: find_nearest returns None exactly when every element is farther
\* from the target than the tolerance (so for the empty list); otherwise it
\* returns (value, index) with array[index] = value and value at the least
\* distance from the target.
C12_NoneIffAllTooFar ==
    nearest.pc = "done" =>
        LET a == nearest.array
            far == \A i \in DOMAIN a : Abs(a[i] - nearest.value) > nearest.fuzzyness
        IN  /\ nearest.ret = NoMatch <=> far
            /\ nearest.ret # NoMatch =>
                  /\ nearest.ret[2] + 1 \in DOMAIN a
                  /\ a[nearest.ret[2] + 1] = nearest.ret[1]
                  /\ \A i \in DOMAIN a :
                        Abs(nearest.ret[1] - nearest.value) <= Abs(a[i] - nearest.value)

\* A call has returned an element exactly at the tolerance from the target,
\* of a list that also holds an element beyond the tolerance.
C12_Witness ==
    /\ nearest.pc = "done"
    /\ nearest.ret # NoMatch
    /\ nearest.fuzzyness > 0
    /\ Abs(nearest.ret[1] - nearest.value) = nearest.fuzzyness
    /\ \E i \in DOMAIN nearest.array :
          Abs(nearest.array[i] - nearest.value) > nearest.fuzzyness

\* C13: of several elements at the same least distance from the target,
\* find_nearest returns the one of smallest index; find_nearest([5, 15], 10, 5)
\* returns (5, 0).
C13_TieToSmallestIndex ==
    nearest.pc = "done" =>
        /\ nearest.ret # NoMatch =>
              \A i \in DOMAIN nearest.array :
                  Abs(nearest.array[i] - nearest.value)
                      = Abs(nearest.ret[1] - nearest.value)
                  => nearest.ret[2] + 1 <= i
        /\ nearest.array = <<5, 15>> /\ nearest.value = 10 /\ nearest.fuzzyness = 5
              => nearest.ret = <<5, 0>>

\* The call of the example has returned: 5 and 15 are both at distance 5
\* from 10.
C13_Witness ==
    /\ nearest.pc = "done"
    /\ nearest.array = <<5, 15>>
    /\ nearest.value = 10
    /\ nearest.ret # NoMatch

(***************************************************************************)
(* dayslice (img_seq/lapsetime.py). The index is as for cron_image_filter: *)
(* for each day-key a set of files <<path, timestamp>>. A list argument is *)
(* [given |-> FALSE] for None, else [given |-> TRUE, list |-> sequence].   *)
(***************************************************************************)
\* datetime.hour and datetime.minute.
HourOf(t) == (t % SecondsPerDay) \div SecondsPerHour

MinuteOf(t) == (t % SecondsPerHour) \div SecondsPerMinute

NoneList == [given |-> FALSE, list |-> <<>>]

ListOf(q) == [given |-> TRUE, list |-> q]

\* list.sort() of a list of integers.
Sorted(q) == SortSeq(q, LAMBDA a, b : a < b)

\* Lines 81-82 and 86: None stands for every hour of the day.
EffectiveHours(hourlist) ==
    Sorted(IF hourlist.given THEN hourlist.list
           ELSE [i \in 1..HoursPerDay |-> i - 1])

\* Lines 83-84 and 87: None and the empty list stand for [0].
EffectiveMinutes(minutelist) ==
    Sorted(IF minutelist.given /\ minutelist.list # <<>> THEN minutelist.list
           ELSE <<0>>)

\* A mutant of PathBefore: the files are taken in descending path order.
PathAfter(f, g) == f[1] >= g[1]

\* sorted(sorted_files.items()), line 103: (filename, timestamp) pairs in
\* ascending order, that is by filename, whatever the order of line 95.
PathBefore(f, g) == f[1] <= g[1]

RECURSIVE SortedFiles(_)
SortedFiles(S) ==
    IF S = {} THEN <<>>
    ELSE LET f == CHOOSE x \in S : \A y \in S : PathBefore(x, y)
         IN  <<f>> \o SortedFiles(S \ {f})

\* Lines 103-106: the files of the day in the target hour, in that order.
HourFiles(dayfiles, target_hour) ==
    SortedFiles({f \in dayfiles : HourOf(f[2]) = target_hour})

\* A mutant of Match: the tolerance argument is not passed on.
MatchDefaultFuzzy(hour_minutes, target_minute, fuzzy) ==
    find_nearest(hour_minutes, target_minute, DefaultFuzzy)

\* Line 118.
Match(hour_minutes, target_minute, fuzzy) ==
    find_nearest(hour_minutes, target_minute, fuzzy)

\* Lines 114-125 for one target hour that has files: for every target minute
\* what is appended to imageset, the matched file name or nothing.
HourPicks(day, target_hour, hour_files, minutes, fuzzy) ==
    LET hour_minutes == [i \in DOMAIN hour_files |-> MinuteOf(hour_files[i][2])]
    IN  [j \in DOMAIN minutes |->
            LET match == Match(hour_minutes, minutes[j], fuzzy)
            IN  [day |-> day, hour |-> target_hour, minute |-> minutes[j],
                 files |-> IF match # NoMatch
                           THEN <<hour_files[match[2] + 1][1]>>
                           ELSE <<>>]]

\* Lines 97-125: the target hours from position i on; an hour without files
\* is skipped (lines 111-112).
RECURSIVE DayPicks(_, _, _, _, _, _)
DayPicks(day, dayfiles, hours, i, minutes, fuzzy) ==
    IF i > Len(hours) THEN <<>>
    ELSE LET hour_files == HourFiles(dayfiles, hours[i])
         IN  (IF hour_files = <<>> THEN <<>>
              ELSE HourPicks(day, hours[i], hour_files, minutes, fuzzy))
             \o DayPicks(day, dayfiles, hours, i + 1, minutes, fuzzy)

\* The file names appended by a sequence of picks, in order.
RECURSIVE Appended(_)
Appended(picks) ==
    IF picks = <<>> THEN <<>>
    ELSE Head(picks).files \o Appended(Tail(picks))

\* dayslice, lines 94-125: one iteration of the loop over the days of the
\* index, which come in the dictionary's own order.
SliceDay ==
    /\ slice.pc = "loop"
    /\ \E day \in slice.days :
          LET picks == DayPicks(day, slice.index[day],
                                EffectiveHours(slice.hourlist), 1,
                                EffectiveMinutes(slice.minutelist), slice.fuzzy)
          IN  slice' = [slice EXCEPT !.days = @ \ {day},
                                     !.picks = @ \o picks,
                                     !.imageset = @ \o Appended(picks)]
    /\ UNCHANGED <<cfg, taskVars, execVars, stream, clear, cron, nearest, iset>>

\* dayslice, lines 127-128: imageset.sort(); return imageset.
SliceReturn ==
    /\ slice.pc = "loop"
    /\ slice.days = {}
    /\ slice' = [slice EXCEPT !.pc = "done", !.ret = Sorted(slice.imageset)]
    /\ UNCHANGED <<cfg, taskVars, execVars, stream, clear, cron, nearest, iset>>

(***************************************************************************)
(* SpecSlice: one call of dayslice.                                        *)
(***************************************************************************)
\* The files an index is drawn from: three of hour 10 whose paths are in
\* the order of their times, two of hour 11 whose paths are not, one on
\* another day with a seconds field, one late in the evening.
SlicePool ==
    {<<1, At(0, 10, 0, 0)>>, <<2, At(0, 10, 5, 0)>>, <<3, At(0, 10, 15, 0)>>,
     <<4, At(0, 11, 15, 0)>>, <<5, At(0, 11, 5, 0)>>, <<6, At(1, 10, 5, 30)>>,
     <<7, At(0, 22, 58, 0)>>}

HourLists ==
    {NoneList, ListOf(<<>>), ListOf(<<10>>), ListOf(<<11, 10>>),
     ListOf(<<10, 10>>), ListOf(<<22>>)}

MinuteLists ==
    {NoneList, ListOf(<<>>), ListOf(<<0>>), ListOf(<<10>>), ListOf(<<30>>),
     ListOf(<<5, 0>>)}

NewSlice(files, hourlist, minutelist, fuzzy) ==
    [pc |-> "loop", index |-> IndexOf(files), hourlist |-> hourlist,
     minutelist |-> minutelist, fuzzy |-> fuzzy, days |-> DOMAIN IndexOf(files),
     picks |-> <<>>, imageset |-> <<>>, ret |-> <<>>]

InitSlice ==
    /\ TaskIdle
    /\ cron = CronIdle
    /\ nearest = CallIdle
    /\ iset = CallIdle
    /\ stream = StreamIdle
    /\ clear = ClearIdle
    /\ \E files \in SUBSET SlicePool, hourlist \in HourLists,
          minutelist \in MinuteLists, fuzzy \in FuzzyChoices :
            /\ Cardinality(files) <= MaxFiles
            /\ slice = NewSlice(files, hourlist, minutelist, fuzzy)

NextSlice ==
    \/ SliceDay
    \/ SliceReturn

SpecSlice == InitSlice /\ [][NextSlice]_vars

(***************************************************************************)
(* Properties of dayslice (SpecSlice).                                     *)
(***************************************************************************)
Range(q) == {q[i] : i \in DOMAIN q}

\* The hours of hourlist (every hour of the day when it is absent) and the
\* minutes of minutelist ([0] when it is absent), as the caller gave them.
GivenHours ==
    IF slice.hourlist.given THEN Range(slice.hourlist.list) ELSE 0..(HoursPerDay - 1)

GivenMinutes ==
    IF slice.minutelist.given THEN Range(slice.minutelist.list) ELSE {0}

\* The files of the day in hour h whose minute is nearest to m, when that is
\* within fuzzy of m.
NearestInHour(d, h, m) ==
    LET cand == {f \in slice.index[d] : HourOf(f[2]) = h}
    IN  {f \in cand :
            /\ Abs(MinuteOf(f[2]) - m) <= slice.fuzzy
            /\ \A g \in cand : Abs(MinuteOf(f[2]) - m) <= Abs(MinuteOf(g[2]) - m)}

\* Once dayslice has returned, every day, hour of hourlist in which the day
\* has a file and minute of minutelist has been looked at.
AllTriplesPicked ==
    slice.pc = "done" =>
        \A d \in DOMAIN slice.index, h \in GivenHours, m \in GivenMinutes :
            (\E f \in slice.index[d] : HourOf(f[2]) = h) =>
                \E i \in DOMAIN slice.picks :
                    /\ slice.picks[i].day = d
                    /\ slice.picks[i].hour = h
                    /\ slice.picks[i].minute = m

\* C14 (as claimed): for every day, hour with files and target minute at most
\* one file is appended: the file of that day and hour whose minute is
\* nearest to the target, when within fuzzy of it, the one of earliest
\* timestamp among several equally near; nothing otherwise.
C14_NearestTieToEarlierFile ==
    /\ AllTriplesPicked
    /\ \A i \in DOMAIN slice.picks :
          LET k == slice.picks[i]
              best == NearestInHour(k.day, k.hour, k.minute)
          IN  IF best = {} THEN k.files = <<>>
              ELSE \E f \in best :
                      /\ k.files = <<f[1]>>
                      /\ \A g \in best : f[2] <= g[2]

\* C14 (amended): the same, the file appended among several equally near
\* being the one that comes first in path order.
C14_NearestTieToFirstPath ==
    /\ AllTriplesPicked
    /\ \A i \in DOMAIN slice.picks :
          LET k == slice.picks[i]
              best == NearestInHour(k.day, k.hour, k.minute)
          IN  IF best = {} THEN k.files = <<>>
              ELSE \E f \in best :
                      /\ k.files = <<f[1]>>
                      /\ \A g \in best : f[1] <= g[1]

\* dayslice has returned after a target minute had two files at the same
\* least distance and one of them was appended.
C14_Witness ==
    /\ slice.pc = "done"
    /\ \E i \in DOMAIN slice.picks :
          /\ Cardinality(NearestInHour(slice.picks[i].day, slice.picks[i].hour,
                                       slice.picks[i].minute)) = 2
          /\ slice.picks[i].files # <<>>

\* C15: the list dayslice returns is strictly ascending by path.
C15_StrictlyAscending ==
    slice.pc = "done" =>
        \A i, j \in DOMAIN slice.ret : i < j => slice.ret[i] < slice.ret[j]

\* The time of day of an instant, in seconds.
TimeOfDay(t) == t % SecondsPerDay

\* C16 (as claimed): when no file of the index is within fuzzy minutes of a
\* target time formed from an hour of hourlist and a minute of minutelist,
\* dayslice returns the empty list.
C16_NoTargetNearGivesEmpty ==
    slice.pc = "done" =>
        ((\A d \in DOMAIN slice.index, h \in GivenHours, m \in GivenMinutes :
            \A f \in slice.index[d] :
                Abs(TimeOfDay(f[2]) - (h * SecondsPerHour + m * SecondsPerMinute))
                    > slice.fuzzy * SecondsPerMinute)
         => slice.ret = <<>>)

\* The minutes targeted for an absent or empty minutelist: [0].
TargetMinutes ==
    IF slice.minutelist.given /\ slice.minutelist.list # <<>>
    THEN Range(slice.minutelist.list) ELSE {0}

\* No file has its hour in hourlist and its minute within fuzzy of a
\* targeted minute.
NoMinuteNear ==
    \A d \in DOMAIN slice.index, h \in GivenHours, m \in TargetMinutes :
        \A f \in slice.index[d] :
            HourOf(f[2]) = h => Abs(MinuteOf(f[2]) - m) > slice.fuzzy

\* C16 (amended): when no file has its hour in hourlist and its minute field
\* within fuzzy of a targeted minute, an absent or empty minutelist
\* targeting minute 0, dayslice returns the empty list.
C16_NoMinuteNearGivesEmpty ==
    slice.pc = "done" /\ NoMinuteNear => slice.ret = <<>>

\* dayslice has returned the empty list although a target hour had a file,
\* none close enough to a targeted minute.
C16_Witness ==
    /\ slice.pc = "done"
    /\ NoMinuteNear
    /\ slice.picks # <<>>
    /\ slice.ret = <<>>

(***************************************************************************)
(* ImageSet (img_seq/image.py): indexing by file name. A path is           *)
(* [norm, alt]: norm identifies the file, alt = 1 is a second spelling of  *)
(* the same path with a redundant separator ("/i//x.jpg" for "/i/x.jpg").  *)
(* The base name of a path decides what the pattern finds in it.           *)
(***************************************************************************)
Path(k, alt) == [norm |-> k, alt |-> alt]

\* os.path.normpath.
NormPath(f) == [f EXCEPT !.alt = 0]

\* The seconds group of the pattern matched the empty string.
NoSeconds == -1

\* pattern.match(os.path.basename(f)), lines 519-520, and what datetime()
\* makes of the groups, line 530: a name the pattern does not match, a name
\* whose groups are no date (month 13), or a name with its date fields.
NameOf(f) ==
    CASE f.norm = 1 -> [match |-> TRUE, valid |-> TRUE,
                        day |-> 0, hour |-> 12, minute |-> 0, seconds |-> 0]
      [] f.norm = 2 -> [match |-> TRUE, valid |-> TRUE,
                        day |-> 0, hour |-> 13, minute |-> 5, seconds |-> NoSeconds]
      [] f.norm = 3 -> [match |-> TRUE, valid |-> TRUE,
                        day |-> 1, hour |-> 8, minute |-> 0, seconds |-> 30]
      [] f.norm = 4 -> [match |-> FALSE, valid |-> FALSE,
                        day |-> 0, hour |-> 0, minute |-> 0, seconds |-> 0]
      [] OTHER      -> [match |-> TRUE, valid |-> FALSE,
                        day |-> 0, hour |-> 0, minute |-> 0, seconds |-> 0]

\* Lines 526-530: the timestamp of the groups, an empty seconds group
\* standing for "00".
TimestampOf(name) ==
    At(name.day, name.hour, name.minute,
       IF name.seconds = NoSeconds THEN 0 ELSE name.seconds)

\* The order of path strings: the spelling with the redundant separator
\* sorts before the plain one.
PathKey(f) == 2 * f.norm - f.alt

\* sorted(imagelist), lines 478, 487 and 498.
SortedPaths(q) == SortSeq(q, LAMBDA a, b : PathKey(a) < PathKey(b))

\* self.imageindex = {}, line 449.
EmptyIndex == [d \in {} |-> {}]

\* Lines 533-535: days[day][f] = timestamp; a day is the set of its
\* <<path, timestamp>> entries.
Put(days, day, f, ts) ==
    [d \in DOMAIN days \cup {day} |->
        IF d = day
        THEN (IF day \in DOMAIN days THEN days[day] ELSE {}) \cup {<<f, ts>>}
        ELSE days[d]]

\* A mutant of ResetCount: the count of the previous build is kept.
KeepCount(c) == c

\* Line 513: self.imagecount = 0.
ResetCount(c) == 0

\* index_files, lines 518-536, from position i on: a name that does not
\* match is skipped, datetime() raises ValueError for a name that is no
\* date, and every other file is recorded and counted.
RECURSIVE IndexFrom(_, _, _)
IndexFrom(files, i, acc) ==
    IF i > Len(files) THEN acc
    ELSE LET f == files[i]
             name == NameOf(f)
         IN  IF ~name.match THEN IndexFrom(files, i + 1, acc)
             ELSE IF ~name.valid THEN [acc EXCEPT !.raised = TRUE]
             ELSE IndexFrom(files, i + 1,
                    [acc EXCEPT
                       !.days = Put(@, DateOf(TimestampOf(name)), f, TimestampOf(name)),
                       !.imagecount = @ + 1])

\* index_files(files) on an ImageSet whose imagecount is c: whether it
\* raised, the index built and the imagecount left on the ImageSet.
index_files(files, c) ==
    IndexFrom(files, 1,
              [raised |-> FALSE, days |-> EmptyIndex, imagecount |-> ResetCount(c)])

\* filter_index, lines 598-607.
filter_index(imageindex, files) ==
    LET matched == {NormPath(files[i]) : i \in DOMAIN files}
        day_matched(day) == {e \in imageindex[day] : NormPath(e[1]) \in matched}
    IN  [day \in {d \in DOMAIN imageindex : day_matched(d) # {}} |->
            day_matched(day)]

\* A list of the elements of a set, in some order.
RECURSIVE SeqOfSet(_)
SeqOfSet(S) ==
    IF S = {} THEN <<>>
    ELSE LET x == CHOOSE y \in S : TRUE
         IN  <<x>> \o SeqOfSet(S \ {x})

\* _scandir, lines 647-653: os.path.join(directory, entry.name) for the
\* files of the directory, each once and plainly spelt.
Scandir(dir) == SeqOfSet(dir)

\* No earlier build to compare with.
NoBuild == [some |-> FALSE, imageindex |-> EmptyIndex, imagecount |-> 0]

Snapshot(imageindex, imagecount) ==
    [some |-> TRUE, imageindex |-> imageindex, imagecount |-> imagecount]

\* The record of a call made on the ImageSet: its arguments and outcome,
\* the index and count it found, and the result of the previous build from
\* the same source.
Call(op, arg, r, prev) ==
    [op |-> op, arg |-> arg, raised |-> r.raised, ret |-> r.days,
     before |-> Snapshot(iset.imageindex, iset.imagecount), prev |-> prev]

\* Lines 498-500 (and 478-480, 487-488 with the listing of the directory):
\* self.images is set, then _build_index runs index_files, which leaves
\* its count on the ImageSet, and only when it returns is the index stored.
Build(op, source, listing) ==
    LET images == SortedPaths(listing)
        r == index_files(images, iset.imagecount)
    IN  iset' = [iset EXCEPT
                   !.images = images,
                   !.imagecount = r.imagecount,
                   !.imageindex = IF r.raised THEN @ ELSE r.days,
                   !.built[source] = IF r.raised THEN @
                                     ELSE Snapshot(r.days, r.imagecount),
                   !.call = Call(op, images, r, iset.built[source])]

\* import_from_list(imagelist), lines 498-501.
ImportFromList ==
    /\ iset.pc = "ready"
    /\ Build("import_from_list", "list", iset.list)
    /\ UNCHANGED <<cfg, taskVars, execVars, stream, clear, cron, nearest, slice>>

\* import_folder(inputdir), lines 475-481.
ImportFolder ==
    /\ iset.pc = "ready"
    /\ LET images == SortedPaths(Scandir(iset.dir))
           r == index_files(images, iset.imagecount)
       IN  iset' = [iset EXCEPT
                      !.inputdir = TRUE,
                      !.images = images,
                      !.imagecount = r.imagecount,
                      !.imageindex = IF r.raised THEN @ ELSE r.days,
                      !.built["folder"] = IF r.raised THEN @
                                          ELSE Snapshot(r.days, r.imagecount),
                      !.call = Call("import_folder", images, r, iset.built["folder"])]
    /\ UNCHANGED <<cfg, taskVars, execVars, stream, clear, cron, nearest, slice>>

\* refresh_folder(), lines 485-488: nothing without an input directory.
RefreshFolder ==
    /\ iset.pc = "ready"
    /\ IF iset.inputdir
       THEN Build("refresh_folder", "folder", Scandir(iset.dir))
       ELSE iset' = [iset EXCEPT
                       !.call = Call("refresh_folder", <<>>,
                                     [raised |-> FALSE, days |-> EmptyIndex], NoBuild)]
    /\ UNCHANGED <<cfg, taskVars, execVars, stream, clear, cron, nearest, slice>>

\* index_files(files) called on the ImageSet itself: it returns the index
\* and leaves its count on the ImageSet.
IndexFiles ==
    /\ iset.pc = "ready"
    /\ LET r == index_files(iset.list, iset.imagecount)
       IN  iset' = [iset EXCEPT !.imagecount = r.imagecount,
                                !.call = Call("index_files", iset.list, r, NoBuild)]
    /\ UNCHANGED <<cfg, taskVars, execVars, stream, clear, cron, nearest, slice>>

\* filter_index(files), lines 598-607, for a list of some of the paths.
FilterIndex ==
    /\ iset.pc = "ready"
    /\ \E S \in SUBSET {iset.list[i] : i \in DOMAIN iset.list} :
          LET files == SeqOfSet(S)
          IN  iset' = [iset EXCEPT
                         !.call = Call("filter_index", files,
                                       [raised |-> FALSE,
                                        days |-> filter_index(iset.imageindex, files)],
                                       NoBuild)]
    /\ UNCHANGED <<cfg, taskVars, execVars, stream, clear, cron, nearest, slice>>

(***************************************************************************)
(* SpecIndex: calls on one ImageSet given one file list, the directory     *)
(* holding the files of the list.                                          *)
(***************************************************************************)
PathPool ==
    {Path(1, 0), Path(1, 1), Path(2, 0), Path(3, 0), Path(4, 0), Path(5, 0)}

\* ImageSet.__init__, lines 449-458.
NewImageSet(list) ==
    [pc |-> "ready", list |-> list,
     dir |-> {NormPath(list[i]) : i \in DOMAIN list},
     images |-> <<>>, inputdir |-> FALSE, imageindex |-> EmptyIndex,
     imagecount |-> 0,
     built |-> [source \in {"list", "folder"} |-> NoBuild],
     call |-> [op |-> "none", arg |-> <<>>, raised |-> FALSE, ret |-> EmptyIndex,
               before |-> NoBuild, prev |-> NoBuild]]

InitIndex ==
    /\ TaskIdle
    /\ cron = CronIdle
    /\ nearest = CallIdle
    /\ slice = CallIdle
    /\ \E list \in SeqsUpTo(PathPool, MaxLen) : iset = NewImageSet(list)
    /\ stream = StreamIdle
    /\ clear = ClearIdle

NextIndex ==
    \/ ImportFromList
    \/ ImportFolder
    \/ RefreshFolder
    \/ IndexFiles
    \/ FilterIndex

SpecIndex == InitIndex /\ [][NextIndex]_vars

(***************************************************************************)
(* Properties of the ImageSet (SpecIndex).                                 *)
(***************************************************************************)
\* The <<path, timestamp>> entries of an index, over all its days.
Entries(index) == UNION {index[d] : d \in DOMAIN index}

\* C17: after index_files(files) the index returned holds exactly the files
\* of the list whose base name matches the pattern, each under the one
\* day-key that is the date of its timestamp; no error is raised; and
\* imagecount is the number of files recorded in the index.
C17_IndexHoldsMatchingFiles ==
    iset.call.op = "index_files" =>
        LET files == {iset.call.arg[i] : i \in DOMAIN iset.call.arg}
            index == iset.call.ret
        IN  /\ ~iset.call.raised
            /\ {e[1] : e \in Entries(index)} = {f \in files : NameOf(f).match}
            /\ \A d \in DOMAIN index : \A e \in index[d] :
                  /\ e[2] = TimestampOf(NameOf(e[1]))
                  /\ DateOf(e[2]) = d
            /\ \A d1, d2 \in DOMAIN index : \A e1 \in index[d1], e2 \in index[d2] :
                  e1[1] = e2[1] => d1 = d2
            /\ iset.imagecount = Cardinality(Entries(index))

\* C18: for a list of indexed paths, filter_index returns the index that
\* indexing the list directly returns, and leaves imageindex and imagecount
\* as they were.
C18_FilterIndexIsIndexOfSubset ==
    /\ iset.call.op = "filter_index"
    /\ \A i \in DOMAIN iset.call.arg :
          iset.call.arg[i] \in {e[1] : e \in Entries(iset.call.before.imageindex)}
    => /\ iset.call.ret = index_files(iset.call.arg, 0).days
       /\ iset.imageindex = iset.call.before.imageindex
       /\ iset.imagecount = iset.call.before.imagecount

\* C19: a build (import_from_list, import_folder or refresh_folder) that
\* returns after an earlier build from the same unchanged source yields the
\* same index and the same imagecount as that one.
C19_IndexingIsIdempotent ==
    /\ iset.call.op \in {"import_from_list", "import_folder", "refresh_folder"}
    /\ ~iset.call.raised
    /\ iset.call.prev.some
    => /\ iset.imageindex = iset.call.prev.imageindex
       /\ iset.imagecount = iset.call.prev.imagecount

\* A second import_from_list of a list with files of two days and a file
\* that does not match has returned.
C19_Witness ==
    /\ iset.call.op = "import_from_list"
    /\ ~iset.call.raised
    /\ iset.call.prev.some
    /\ Cardinality(DOMAIN iset.imageindex) = 2
    /\ \E i \in DOMAIN iset.list : ~NameOf(iset.list[i]).match

(***************************************************************************)
(* clear_target (img_seq/utils.py). A file is its name and its extension;  *)
(* a mask "*.ext" is its extension. Other processes lock, release and      *)
(* delete files of the directory between and during the passes.            *)
(***************************************************************************)
\* fnmatch.fnmatch(entry.name, mask) for a mask "*.ext".
Matches(file, mask) == file.ext = mask

\* A mutant of Attempts: the retries alone.
AttemptsRetriesOnly(retries) == retries

\* clear_target, line 68: range(1 + retries).
Attempts(retries) == 1 + retries

\* clear_target, line 82: remaining = still_locked.
Retry(rem, still_locked) == still_locked

\* clear_target, lines 57-66: the directory is scanned for the files that
\* match the mask; with none the call returns.
ClearScan ==
    /\ clear.pc = "scan"
    /\ LET targets == {f \in clear.dir : Matches(f, clear.mask)} IN
       clear' = [clear EXCEPT !.pc = IF targets = {} THEN "returned" ELSE "pass",
                              !.targets = targets,
                              !.remaining = targets]
    /\ UNCHANGED <<cfg, taskVars, execVars, cron, nearest, slice, iset, stream>>

\* clear_target, lines 68-88: one pass of the loop. os.remove is called on
\* every remaining file: it raises PermissionError for the files another
\* process holds open (locked), FileNotFoundError for those already gone,
\* and removes the others. With no file locked the call returns.
ClearPass ==
    /\ clear.pc = "pass"
    /\ clear.attempt < Attempts(clear.retries)
    /\ \E locked \in SUBSET clear.remaining :
         \E gone \in SUBSET (clear.remaining \ locked) :
           clear' = [clear EXCEPT
                        !.pc = IF locked = {} THEN "returned" ELSE "pass",
                        !.attempt = @ + 1,
                        !.tried = clear.remaining,
                        !.still_locked = locked,
                        !.remaining = Retry(clear.remaining, locked),
                        !.removed = @ \cup (clear.remaining \ (locked \cup gone)),
                        !.dir = @ \ (clear.remaining \ locked)]
    /\ UNCHANGED <<cfg, taskVars, execVars, cron, nearest, slice, iset, stream>>

\* clear_target, lines 90-94: the loop is exhausted, PermissionError is
\* raised.
ClearRaise ==
    /\ clear.pc = "pass"
    /\ clear.attempt >= Attempts(clear.retries)
    /\ clear' = [clear EXCEPT !.pc = "raised"]
    /\ UNCHANGED <<cfg, taskVars, execVars, cron, nearest, slice, iset, stream>>

\* The files a directory is made of.
ClearPool ==
    {[name |-> "a", ext |-> "jpg"], [name |-> "b", ext |-> "jpg"],
     [name |-> "c", ext |-> "jpg"], [name |-> "keep", ext |-> "txt"],
     [name |-> "keep", ext |-> "png"]}

Masks == {"jpg", "txt"}

NewClear(dir, mask, retries) ==
    [pc |-> "scan", dir |-> dir, dir0 |-> dir, mask |-> mask, retries |-> retries,
     targets |-> {}, remaining |-> {}, tried |-> {}, still_locked |-> {},
     removed |-> {}, attempt |-> 0]

InitClear ==
    /\ TaskIdle
    /\ cron = CronIdle
    /\ nearest = CallIdle
    /\ slice = CallIdle
    /\ iset = CallIdle
    /\ stream = StreamIdle
    /\ \E dir \in SUBSET ClearPool, mask \in Masks, retries \in 0..MaxRetries :
          clear = NewClear(dir, mask, retries)

NextClear ==
    \/ ClearScan
    \/ ClearPass
    \/ ClearRaise

SpecClear == InitClear /\ [][NextClear]_vars

\* There was nothing to delete, or the last pass left no locked file.
NothingLocked ==
    \/ clear.targets = {}
    \/ clear.attempt > 0 /\ clear.still_locked = {}

\* C30: clear_target makes at most 1 + retries passes; the first pass is over
\* the files matching the mask and each later pass only over the files that
\* raised PermissionError in the pass before, a file already gone counting as
\* deleted; the call returns normally if and only if there was nothing to
\* delete or a pass left no locked file, and otherwise raises PermissionError
\* after pass 1 + retries; no file that does not match the mask is deleted.
C30_BoundedRetriesOfLockedFiles ==
    /\ [](clear.attempt <= 1 + clear.retries)
    /\ [][clear'.attempt # clear.attempt =>
            /\ clear'.attempt = clear.attempt + 1
            /\ clear'.tried = (IF clear.attempt = 0 THEN clear.targets
                               ELSE clear.still_locked)
            /\ clear'.still_locked \subseteq clear'.tried
            /\ clear'.dir = clear.dir \ (clear'.tried \ clear'.still_locked)]_vars
    /\ [](clear.pc = "returned" => NothingLocked)
    /\ [](clear.pc \in {"pass", "raised"} => ~NothingLocked)
    /\ [](clear.pc = "raised" => clear.attempt = 1 + clear.retries)
    /\ [](clear.pc # "scan" =>
            clear.targets = {f \in clear.dir0 : Matches(f, clear.mask)})
    /\ [](/\ \A f \in clear.removed : Matches(f, clear.mask)
          /\ \A f \in clear.dir0 : ~Matches(f, clear.mask) => f \in clear.dir)

\* A call with MaxRetries retries has returned after its last pass: two files
\* were locked at first, one of them until that pass, where it was deleted;
\* the file that does not match the mask is still there.
C30_Witness ==
    /\ clear.pc = "returned"
    /\ clear.retries = MaxRetries
    /\ clear.attempt = 1 + MaxRetries
    /\ Cardinality(clear.targets) = 3
    /\ Cardinality(clear.tried) = 1
    /\ clear.tried \subseteq clear.removed
    /\ clear.still_locked = {}
    /\ [name |-> "keep", ext |-> "txt"] \in clear.dir

====
